---- MODULE Spec2Model ----
(***************************************************************************)
(* A model of ubuntu_image_fetcher.py: the interactive loop (main), one    *)
(* fetch attempt (fetch_image) and its helpers (validate_image_response,   *)
(* generate_filename, get_content_type_extension).                         *)
(*                                                                         *)
(* Text is modelled as sequences of Unicode code points and response       *)
(* bodies as sequences of byte values, so that lower(), strip(), unquote,  *)
(* isalnum, int() and startswith are computed the way Python computes      *)
(* them.                                                                   *)
(***************************************************************************)
EXTENDS Integers, Sequences, FiniteSets, TLC

VARIABLES
    pc,           \* position of the program (main loop / fetch_image step)
    url,          \* the url argument of the running fetch_image call
    now,          \* the wall clock read by int(time.time())
    cwdWritable,  \* whether a directory can be created in the working directory
    dir,          \* the target directory: "absent", "writable" or "readonly"
    files,        \* the files of the target directory: name -> bytes
    response,     \* the response object of the running attempt
    filename,     \* local variable filename of fetch_image
    chunks,       \* what response.iter_content has still to yield
    total_size,   \* local variable total_size of fetch_image
    result,       \* what fetch_image returned: [success, message]
    raised,       \* the exception that left fetch_image, if one did
    answer,       \* the user's last answer to the follow-up prompt
    trace         \* observations of the run (not program state), see TraceInit

vars == << pc, url, now, cwdWritable, dir, files, response, filename, chunks,
           total_size, result, raised, answer, trace >>

-----------------------------------------------------------------------------
(* Characters and strings                                                  *)

\* The printable ASCII characters in code point order, from 32 (space).  The
\* entry of code point 96 (the grave accent, which no literal of the program
\* uses) is a placeholder the lexer accepts.
AsciiTable ==
    << " ", "!", "\"", "#", "$", "%", "&", "'", "(", ")", "*", "+", ",", "-", ".", "/",
       "0", "1", "2", "3", "4", "5", "6", "7", "8", "9", ":", ";", "<", "=", ">", "?",
       "@", "A", "B", "C", "D", "E", "F", "G", "H", "I", "J", "K", "L", "M", "N", "O",
       "P", "Q", "R", "S", "T", "U", "V", "W", "X", "Y", "Z", "[", "\\", "]", "^", "_",
       "grave", "a", "b", "c", "d", "e", "f", "g", "h", "i", "j", "k", "l", "m", "n", "o",
       "p", "q", "r", "s", "t", "u", "v", "w", "x", "y", "z", "{", "|", "}", "~" >>

\* ord(c) of a printable ASCII character.
Ord(c) == 31 + (CHOOSE i \in 1..Len(AsciiTable) : AsciiTable[i] = c)

\* A Python str literal, written as the sequence of its characters.
Str(s) == [i \in 1..Len(s) |-> Ord(s[i])]

\* U+00E9 (e acute), a non-ASCII letter; U+FFFD, the replacement character.
EAcute == << 233 >>
ReplacementChar == << 65533 >>

\* s[i:] and s[:n] of Python, for 0-based i and n >= 0.
Drop(s, i) == IF i >= Len(s) THEN << >> ELSE SubSeq(s, i + 1, Len(s))
Take(s, n) == IF n >= Len(s) THEN s ELSE SubSeq(s, 1, n)

\* s.startswith(p)
StartsWith(s, p) == Len(p) <= Len(s) /\ SubSeq(s, 1, Len(p)) = p

\* s.find(p): the 0-based index of the first occurrence of p in s, or -1.
Find(s, p) ==
    LET hits == { i \in 0..(Len(s) - Len(p)) : SubSeq(s, i + 1, i + Len(p)) = p }
    IN  IF hits = {} THEN -1 ELSE CHOOSE i \in hits : \A j \in hits : i <= j

\* s.rfind(p)
RFind(s, p) ==
    LET hits == { i \in 0..(Len(s) - Len(p)) : SubSeq(s, i + 1, i + Len(p)) = p }
    IN  IF hits = {} THEN -1 ELSE CHOOSE i \in hits : \A j \in hits : i >= j

\* p in s
Contains(s, p) == Find(s, p) >= 0

\* c.isalnum(): str.isalnum is Unicode-aware.  On the code points below 256
\* it holds of the ASCII digits and letters and of the Latin-1 letters and
\* numeric characters; it does not hold of U+FFFD.
IsAlnum(c) ==
    \/ c \in 48..57
    \/ c \in 65..90
    \/ c \in 97..122
    \/ c \in {170, 178, 179, 181, 185, 186, 188, 189, 190}
    \/ c \in ((192..255) \ {215, 247})

\* c.lower() for one character of the code points below 256.
LowerChar(c) ==
    IF c \in 65..90 THEN c + 32
    ELSE IF c \in ((192..222) \ {215}) THEN c + 32
    ELSE c

\* s.lower()
Lower(s) == [i \in 1..Len(s) |-> LowerChar(s[i])]

RECURSIVE LStrip(_, _)
\* s.lstrip(): drop the leading characters that satisfy the class cls (a set).
LStrip(s, cls) ==
    IF s # << >> /\ s[1] \in cls THEN LStrip(Tail(s), cls) ELSE s

RECURSIVE RStrip(_, _)
RStrip(s, cls) ==
    IF s # << >> /\ s[Len(s)] \in cls THEN RStrip(SubSeq(s, 1, Len(s) - 1), cls) ELSE s

\* The code points below 256 of which c.isspace() holds.
WhiteSpace == (9..13) \cup (28..32) \cup {133, 160}

\* s.strip(): whitespace removed at both ends.
Strip(s) == RStrip(LStrip(s, WhiteSpace), WhiteSpace)

\* s.strip(chars)
StripChars(s, chars) ==
    LET cls == { chars[i] : i \in 1..Len(chars) } IN RStrip(LStrip(s, cls), cls)

RECURSIVE IntToStr(_)
\* str(n) for n >= 0, as an f-string formats it.
IntToStr(n) ==
    IF n < 10 THEN << 48 + n >> ELSE IntToStr(n \div 10) \o << 48 + (n % 10) >>

-----------------------------------------------------------------------------
(* Library functions the program calls                                     *)

kSlash == Str(<< "/" >>)
kSemicolon == Str(<< ";" >>)
kHttp == Str(<< "h", "t", "t", "p", ":", "/", "/" >>)
kHttps == Str(<< "h", "t", "t", "p", "s", ":", "/", "/" >>)

\* The index (0-based) of the first character of s that is in cls, or Len(s).
FirstOf(s, cls) ==
    LET hits == { i \in 0..(Len(s) - 1) : s[i + 1] \in cls }
    IN  IF hits = {} THEN Len(s) ELSE CHOOSE i \in hits : \A j \in hits : i <= j

\* What follows "scheme://" in an http or https URL (the only URLs main
\* passes on).
AfterScheme(u) ==
    IF StartsWith(u, kHttp) THEN Drop(u, Len(kHttp))
    ELSE IF StartsWith(u, kHttps) THEN Drop(u, Len(kHttps))
    ELSE u

\* urlsplit's netloc: up to the first of "/", "?", "#".
NetLoc(u) ==
    LET rest == AfterScheme(u)
    IN  Take(rest, FirstOf(rest, { Ord("/"), Ord("?"), Ord("#") }))

\* urllib.parse._splitparams(path)[0]: the path without the parameters of
\* its last segment.
SplitParams(path) ==
    IF Contains(path, kSlash)
    THEN LET from == RFind(path, kSlash)
             i == Find(Drop(path, from), kSemicolon)
         IN  IF i < 0 THEN path ELSE Take(path, from + i)
    ELSE Take(path, Find(path, kSemicolon))

\* urlparse(url).path: after the netloc, up to the query or the fragment,
\* without the parameters.
UrlPath(u) ==
    LET rest == Drop(AfterScheme(u), Len(NetLoc(u)))
        path == Take(rest, FirstOf(rest, { Ord("?"), Ord("#") }))
    IN  IF Contains(path, kSemicolon) THEN SplitParams(path) ELSE path

\* The value of a hexadecimal digit, or -1.
HexVal(c) ==
    IF c \in 48..57 THEN c - 48
    ELSE IF c \in 65..70 THEN c - 55
    ELSE IF c \in 97..102 THEN c - 87
    ELSE -1

RECURSIVE UnquoteToBytes(_)
\* urllib.parse.unquote_to_bytes over the ASCII runs of s: each %XX becomes
\* the byte XX, a "%" not followed by two hex digits stays.  A character
\* above 127 is not part of an ASCII run and is passed on as itself, marked
\* by a negative sign.
UnquoteToBytes(s) ==
    IF s = << >> THEN << >>
    ELSE IF /\ s[1] = Ord("%")
            /\ Len(s) >= 3
            /\ HexVal(s[2]) >= 0
            /\ HexVal(s[3]) >= 0
         THEN << 16 * HexVal(s[2]) + HexVal(s[3]) >> \o UnquoteToBytes(Drop(s, 3))
    ELSE IF s[1] > 127 THEN << 0 - s[1] >> \o UnquoteToBytes(Tail(s))
    ELSE << s[1] >> \o UnquoteToBytes(Tail(s))

RECURSIVE Utf8Decode(_)
\* bytes.decode("utf-8", "replace") for sequences of one and two bytes; the
\* two-byte sequences of the modelled URLs have the lead byte C2 or C3
\* (code points below 256).  A byte that starts no valid sequence, or a lead
\* byte not followed by a continuation byte, becomes U+FFFD.
Utf8Decode(b) ==
    IF b = << >> THEN << >>
    ELSE IF b[1] < 0 THEN << 0 - b[1] >> \o Utf8Decode(Tail(b))
    ELSE IF b[1] < 128 THEN << b[1] >> \o Utf8Decode(Tail(b))
    ELSE IF b[1] \in 194..223 /\ Len(b) >= 2 /\ b[2] \in 128..191
         THEN << (b[1] - 192) * 64 + (b[2] - 128) >> \o Utf8Decode(Drop(b, 2))
    ELSE ReplacementChar \o Utf8Decode(Tail(b))

\* urllib.parse.unquote(s)
Unquote(s) == Utf8Decode(UnquoteToBytes(s))

\* os.path.basename(p): what follows the last "/".
Basename(p) == Drop(p, RFind(p, kSlash) + 1)

\* A header that is absent, and one that is present with value v.
NoHeader == [present |-> FALSE, value |-> << >>]
Header(v) == [present |-> TRUE, value |-> v]

\* response.headers.get(name, default)
HeaderGet(h, default) == IF h.present THEN h.value ELSE default

kImagePng == Str(<< "i", "m", "a", "g", "e", "/", "p", "n", "g" >>)
kImageJpeg == Str(<< "i", "m", "a", "g", "e", "/", "j", "p", "e", "g" >>)
kImageGif == Str(<< "i", "m", "a", "g", "e", "/", "g", "i", "f" >>)
kImageBmp == Str(<< "i", "m", "a", "g", "e", "/", "b", "m", "p" >>)
kDotPng == Str(<< ".", "p", "n", "g" >>)
kDotJpg == Str(<< ".", "j", "p", "g" >>)
kDotGif == Str(<< ".", "g", "i", "f" >>)
kDotBmp == Str(<< ".", "b", "m", "p" >>)

\* mimetypes.guess_extension(type): the type is lower-cased and looked up;
\* the result is None (found = FALSE) for a type the table does not hold,
\* such as one with parameters.
GuessExtension(type) ==
    LET t == Lower(type)
    IN  IF t = kImagePng THEN [found |-> TRUE, ext |-> kDotPng]
        ELSE IF t = kImageJpeg THEN [found |-> TRUE, ext |-> kDotJpg]
        ELSE IF t = kImageGif THEN [found |-> TRUE, ext |-> kDotGif]
        ELSE IF t = kImageBmp THEN [found |-> TRUE, ext |-> kDotBmp]
        ELSE [found |-> FALSE, ext |-> << >>]

RECURSIVE DigitsValue(_)
\* The value of a string of ASCII digits and underscores.
DigitsValue(s) ==
    IF s = << >> THEN 0
    ELSE IF s[Len(s)] = Ord("_") THEN DigitsValue(SubSeq(s, 1, Len(s) - 1))
    ELSE 10 * DigitsValue(SubSeq(s, 1, Len(s) - 1)) + (s[Len(s)] - 48)

\* int(s): white space is stripped, one sign is allowed, the rest must be
\* digits, with single underscores between them; anything else raises
\* ValueError (ok = FALSE).
ParseInt(s) ==
    LET t == Strip(s)
        signed == t # << >> /\ t[1] \in { Ord("+"), Ord("-") }
        body == IF signed THEN Tail(t) ELSE t
        wellFormed ==
            /\ body # << >>
            /\ \A i \in 1..Len(body) : body[i] \in (48..57) \cup { Ord("_") }
            /\ body[1] # Ord("_")
            /\ body[Len(body)] # Ord("_")
            /\ \A i \in 1..(Len(body) - 1) :
                   ~(body[i] = Ord("_") /\ body[i + 1] = Ord("_"))
    IN  IF ~wellFormed THEN [ok |-> FALSE, value |-> 0]
        ELSE [ok |-> TRUE,
              value |-> IF signed /\ t[1] = Ord("-")
                        THEN 0 - DigitsValue(body) ELSE DigitsValue(body)]

RECURSIVE Concat(_)
\* b"".join(chunks)
Concat(cs) == IF cs = << >> THEN << >> ELSE Head(cs) \o Concat(Tail(cs))

-----------------------------------------------------------------------------
(* get_content_type_extension, generate_filename, validate_image_response  *)

kImageSlash == Str(<< "i", "m", "a", "g", "e", "/" >>)
kFilenameEq == Str(<< "f", "i", "l", "e", "n", "a", "m", "e", "=" >>)
kQuotes == Str(<< "\"", "'" >>)
kSafePunctuation == Str(<< ".", "-", "_" >>)
kDot == Str(<< "." >>)
kUbuntuImage ==
    Str(<< "u", "b", "u", "n", "t", "u", "_", "i", "m", "a", "g", "e", "_" >>)

\* get_content_type_extension(response)
get_content_type_extension(resp) ==
    LET content_type == HeaderGet(resp.headers.content_type, << >>)
    IN  IF Contains(content_type, kImageSlash)
        THEN LET extension == GuessExtension(content_type)
             IN  IF extension.found THEN extension.ext ELSE kDotJpg
        ELSE kDotJpg

\* content_disposition.split('filename=')[1]: what lies between the first
\* occurrence of the separator and the next one.
SplitSecond(s, sep) ==
    LET after == Drop(s, Find(s, sep) + Len(sep))
        next == Find(after, sep)
    IN  IF next < 0 THEN after ELSE Take(after, next)

\* The name generate_filename chooses, before it is filtered (lines 44-56).
ChosenName(u, resp, clock) ==
    LET fromUrl == Basename(Unquote(UrlPath(u)))
    IN  IF fromUrl = << >> \/ ~Contains(fromUrl, kDot)
        THEN LET content_disposition ==
                     HeaderGet(resp.headers.content_disposition, << >>)
             IN  IF Contains(content_disposition, kFilenameEq)
                 THEN StripChars(SplitSecond(content_disposition, kFilenameEq), kQuotes)
                 ELSE kUbuntuImage \o IntToStr(clock)
                          \o get_content_type_extension(resp)
        ELSE fromUrl

\* SafeChar with "/" among the characters kept.
SafeCharWithSlash(c) ==
    IsAlnum(c) \/ c \in { kSafePunctuation[i] : i \in 1..Len(kSafePunctuation) }
               \/ c = Ord("/")

\* c.isalnum() or c in '.-_'
SafeChar(c) == IsAlnum(c) \/ c \in { kSafePunctuation[i] : i \in 1..Len(kSafePunctuation) }

\* "".join(c for c in filename if c.isalnum() or c in '.-_')
Sanitize(name) == SelectSeq(name, SafeChar)

\* generate_filename(url, response), with the clock time.time() reads.
generate_filename(u, resp, clock) == Sanitize(ChosenName(u, resp, clock))

\* image_signatures of validate_image_response, as bytes.
image_signatures ==
    { << 255, 216, 255 >>,
      << 137, 80, 78, 71, 13, 10, 26, 10 >>,
      << 71, 73, 70, 56, 55, 97 >>,
      << 71, 73, 70, 56, 57, 97 >>,
      << 66, 77 >> }

\* ContentTypeIsImage without the lower() of line 64.
ContentTypeIsImageCaseSensitive(resp) ==
    StartsWith(HeaderGet(resp.headers.content_type, << >>), kImageSlash)

\* content_type.startswith('image/') of line 67, on the lower-cased header.
ContentTypeIsImage(resp) ==
    StartsWith(Lower(HeaderGet(resp.headers.content_type, << >>)), kImageSlash)

\* any(content_start.startswith(sig) for sig in image_signatures), line 78.
SignatureMatches(content) ==
    LET content_start == Take(content, 10)
    IN  \E sig \in image_signatures : StartsWith(content_start, sig)

kNotAnImage ==
    Str(<< "U", "R", "L", " ", "d", "o", "e", "s", " ", "n", "o", "t", " ",
           "p", "o", "i", "n", "t", " ", "t", "o", " ", "a", " ",
           "v", "a", "l", "i", "d", " ", "i", "m", "a", "g", "e", " ",
           "f", "i", "l", "e" >>)

\* validate_image_response(response): True, or ValueError with its message.
validate_image_response(resp) ==
    IF ~ContentTypeIsImage(resp)
    THEN IF ~SignatureMatches(Concat(resp.body))
         THEN [ok |-> FALSE, error |-> kNotAnImage]
         ELSE [ok |-> TRUE, error |-> << >>]
    ELSE [ok |-> TRUE, error |-> << >>]

-----------------------------------------------------------------------------
(* Bounds of the model                                                     *)

\* How many lines the user types at the URL prompt before closing the input.
MaxPrompts == 2
\* How far the clock advances.
MaxClock == 1

-----------------------------------------------------------------------------
(* The values of the program                                               *)

\* The default of fetch_image's directory parameter.
kDirectory ==
    Str(<< "F", "e", "t", "c", "h", "e", "d", "_", "I", "m", "a", "g", "e", "s" >>)

kTimeoutError ==
    Str(<< "T", "i", "m", "e", "o", "u", "t", " ", "e", "r", "r", "o", "r" >>)
kConnectionError ==
    Str(<< "C", "o", "n", "n", "e", "c", "t", "i", "o", "n", " ", "e", "r", "r",
          "o", "r" >>)
kHttpSpace == Str(<< "H", "T", "T", "P", " " >>)
kSpaceError == Str(<< " ", "e", "r", "r", "o", "r" >>)
kUnknown == Str(<< "U", "n", "k", "n", "o", "w", "n" >>)
kPermissionDenied ==
    Str(<< "P", "e", "r", "m", "i", "s", "s", "i", "o", "n", " ", "d", "e", "n",
          "i", "e", "d" >>)
kInvalidLiteral ==
    Str(<< "i", "n", "v", "a", "l", "i", "d", " ", "l", "i", "t", "e",
          "r", "a", "l", " ", "f", "o", "r", " ", "i", "n", "t", "(",
          ")", " ", "w", "i", "t", "h", " ", "b", "a", "s", "e", " ",
          "1", "0", ":", " " >>)
kApostrophe == Str(<< "'" >>)
kInvalidUrl == Str(<< "I", "n", "v", "a", "l", "i", "d", " ", "U", "R", "L", " " >>)
kNoHost ==
    Str(<< ":", " ", "N", "o", " ", "h", "o", "s", "t", " ", "s", "u", "p", "p",
          "l", "i", "e", "d" >>)
kIsADirectory ==
    Str(<< "[", "E", "r", "r", "n", "o", " ", "2", "1", "]", " ", "I", "s", " ",
          "a", " ", "d", "i", "r", "e", "c", "t", "o", "r", "y", ":", " " >>)
kDotDot == Str(<< ".", "." >>)

NoHeaders ==
    [content_type |-> NoHeader, content_length |-> NoHeader,
     content_disposition |-> NoHeader]

\* No response yet (before requests.get returns).
NoResponse == [status |-> 0, headers |-> NoHeaders, body |-> << >>]

\* No exception, and an exception of the given classes (the exception's
\* class and its bases) with str(e) = message.
NoException == [classes |-> {}, message |-> << >>, response |-> NoResponse]
Exc(classes, message, resp) ==
    [classes |-> classes, message |-> message, response |-> resp]

NoResult == [success |-> FALSE, message |-> << >>]

\* Path(directory) / filename, as str: pathlib drops an empty or "." part.
FilePath(name) ==
    IF name = << >> \/ name = kDot THEN kDirectory
    ELSE kDirectory \o kSlash \o name

\* Response.raise_for_status raises HTTPError for the statuses 400 to 599
\* and for no other.
RaisesForStatus(status) == status >= 400 /\ status < 600

\* bool(response): Response.__bool__ is Response.ok, which is False exactly
\* when raise_for_status would raise.
ResponseTruthy(resp) == ~RaisesForStatus(resp.status)

\* The status_code of line 152.
HandlerStatusCode(e) ==
    IF ResponseTruthy(e.response) THEN IntToStr(e.response.status) ELSE kUnknown

\* The except clauses of fetch_image, in their order (lines 141-170): the
\* value the attempt returns for exception e.
HandleException(e) ==
    IF "Timeout" \in e.classes
    THEN [success |-> FALSE, message |-> kTimeoutError]
    ELSE IF "ConnectionError" \in e.classes
    THEN [success |-> FALSE, message |-> kConnectionError]
    ELSE IF "HTTPError" \in e.classes
    THEN [success |-> FALSE,
          message |-> kHttpSpace \o HandlerStatusCode(e) \o kSpaceError]
    ELSE IF "ValueError" \in e.classes
    THEN [success |-> FALSE, message |-> e.message]
    ELSE IF "PermissionError" \in e.classes
    THEN [success |-> FALSE, message |-> kPermissionDenied]
    ELSE [success |-> FALSE, message |-> e.message]

\* chunk_size of response.iter_content (line 127).
ChunkSize == 8192

\* The size above which the advisory is printed (line 119).
LargeFileLimit == 50 * 1024 * 1024

RECURSIVE IterSlices(_, _)
\* requests.utils.iter_slices: what iter_content yields once response.content
\* has been read.
IterSlices(content, n) ==
    IF content = << >> THEN << >>
    ELSE << Take(content, n) >> \o IterSlices(Drop(content, n), n)

\* The target directory with no file in it.
EmptyDir == [n \in {} |-> << >>]

\* OpenWb in a directory that is emptied first.
OpenWbRecreate(fs, name) == name :> << >>

\* open(filepath, 'wb'): the file is created, or truncated if it exists.
OpenWb(fs, name) == (name :> << >>) @@ fs

\* f.write(chunk)
WriteBytes(fs, name, chunk) == [fs EXCEPT ![name] = @ \o chunk]

\* AddSize that counts a full chunk whatever the chunk's length.
AddSizeFullChunk(total, chunk) == total + ChunkSize

\* total_size += len(chunk)
AddSize(total, chunk) == total + Len(chunk)

\* url.lower() in ['quit', 'exit', 'q'] (line 183)
kQuitWords ==
    { Str(<< "q", "u", "i", "t" >>), Str(<< "e", "x", "i", "t" >>), Str(<< "q" >>) }
IsQuit(u) == Lower(u) \in kQuitWords

\* HasHttpScheme that knows http:// only.
HasHttpOnly(u) == StartsWith(u, kHttp)

\* url.startswith(('http://', 'https://')) (line 193)
HasHttpScheme(u) == StartsWith(u, kHttp) \/ StartsWith(u, kHttps)

\* another not in ['y', 'yes'] (lines 202-208), negated.
kYesWords == { Str(<< "y" >>), Str(<< "y", "e", "s" >>) }
SaysYes(ans) == Lower(Strip(ans)) \in kYesWords

-----------------------------------------------------------------------------
(* Observations of a run.  They record what the program did, for the       *)
(* properties below; no action reads them.                                 *)

TraceInit ==
    [nlines |-> 0,           \* lines read at the URL prompt
     lastLine |-> << >>,     \* the last of them, as typed
     filesBefore |-> EmptyDir, \* the directory's files when the attempt began
     statusPassed |-> FALSE, \* raise_for_status returned
     validated |-> FALSE,    \* validate_image_response returned
     chosen |-> << >>,       \* the name generate_filename chose, unfiltered
     advised |-> FALSE,      \* the large-file advisory was printed
     opened |-> FALSE,       \* open(filepath, 'wb') returned
     written |-> << >>,      \* the chunks passed to f.write
     raisedAt |-> "none",    \* the step whose exception ended the attempt
     caught |-> {}]          \* the classes of that exception

-----------------------------------------------------------------------------
(* The inputs of the program: what the user types and what the network     *)
(* answers.                                                                *)

kUrlPng == Str(<< "h", "t", "t", "p", "s", ":", "/", "/", "x", "/", "a", ".", "p", "n",
          "g" >>)
kUrlImg == Str(<< "h", "t", "t", "p", ":", "/", "/", "x", "/", "i", "m", "g" >>)
kUrlNoHost == Str(<< "h", "t", "t", "p", ":", "/", "/" >>)

SpecLines ==
    { kUrlPng,
      Str(<< " " >>) \o kUrlImg \o Str(<< " " >>),
      kUrlNoHost,
      Str(<< "Q", "u", "i", "t" >>),
      Str(<< " ", "q" >>),
      << >>,
      Str(<< " ", " " >>),
      Str(<< "f", "t", "p", ":", "/", "/", "x", "/", "a", ".", "p", "n", "g" >>),
      Str(<< "H", "T", "T", "P", ":", "/", "/", "x", "/", "a", ".", "p", "n", "g" >>) }

SpecAnswers ==
    { Str(<< " ", "Y", "E", "S", " " >>), Str(<< "n" >>), << >>,
      Str(<< "y", "e", "a", "h" >>) }

kAttachmentPng ==
    Str(<< "a", "t", "t", "a", "c", "h", "m", "e", "n", "t", ";", " ", "f", "i",
          "l", "e", "n", "a", "m", "e", "=", "\"", "a", ".", "p", "n", "g", "\"" >>)
kAttachmentEmpty ==
    Str(<< "a", "t", "t", "a", "c", "h", "m", "e", "n", "t", ";", " ", "f", "i",
          "l", "e", "n", "a", "m", "e", "=", "\"", "\"" >>)
kTextHtml == Str(<< "t", "e", "x", "t", "/", "h", "t", "m", "l" >>)
kNotANumber == Str(<< "a", "b", "c" >>)
kLarge == Str(<< "5", "2", "4", "2", "8", "8", "0", "1" >>)

SpecContentTypes == { NoHeader, Header(kImagePng), Header(kTextHtml) }
SpecDispositions == { NoHeader, Header(kAttachmentEmpty) }
SpecContentLengths == { NoHeader, Header(kNotANumber), Header(kLarge) }
SpecBodies ==
    { << >>,
      << << 66, 77 >>, << >>, << 1 >> >>,
      << << 104, 105 >> >> }

\* A response of the given status, with every combination of the headers
\* above and each of the bodies given.
ResponsesOf(st, bodies) ==
    { [status |-> st,
       headers |-> [content_type |-> ct, content_length |-> cl,
                    content_disposition |-> cd],
       body |-> b] :
        ct \in SpecContentTypes, cl \in SpecContentLengths,
        cd \in SpecDispositions, b \in bodies }

\* What the server answers: 200 with a body, 304 (which has no body), or
\* an error status, whose headers and body the program never reads.
SpecResponses ==
    ResponsesOf(200, SpecBodies)
        \cup ResponsesOf(304, { << >> })
        \cup { [NoResponse EXCEPT !.status = st] : st \in { 404, 503 } }

\* The exceptions requests.get raises, by class and bases.
RequestFailures ==
    { Exc({"ConnectTimeout", "ConnectionError", "Timeout", "RequestException",
           "Exception"}, << >>, NoResponse),
      Exc({"ReadTimeout", "Timeout", "RequestException", "Exception"},
          << >>, NoResponse),
      Exc({"ConnectionError", "RequestException", "Exception"},
          << >>, NoResponse) }

kConnectionBroken ==
    Str(<< "C", "o", "n", "n", "e", "c", "t", "i", "o", "n", " ", "b", "r", "o",
          "k", "e", "n" >>)

\* The exceptions reading the body raises.
StreamFailures ==
    { Exc({"ConnectionError", "RequestException", "Exception"},
          kConnectionBroken, NoResponse),
      Exc({"ChunkedEncodingError", "RequestException", "Exception"},
          kConnectionBroken, NoResponse) }

kOldFile == << 9, 9 >>
kAPng == Str(<< "a", ".", "p", "n", "g" >>)

\* The states the working directory can be in when the program starts:
\* << cwdWritable, dir, files >>.
InitialDirectories ==
    { << TRUE, "absent", EmptyDir >>,
      << FALSE, "absent", EmptyDir >>,
      << TRUE, "writable", EmptyDir >>,
      << TRUE, "writable", kAPng :> kOldFile >>,
      << TRUE, "readonly", kAPng :> kOldFile >> }

-----------------------------------------------------------------------------
(* The program                                                             *)

Init ==
    /\ pc = "prompt_url"
    /\ url = << >>
    /\ now = 0
    /\ \E d \in InitialDirectories :
           /\ cwdWritable = d[1]
           /\ dir = d[2]
           /\ files = d[3]
    /\ response = NoResponse
    /\ filename = << >>
    /\ chunks = << >>
    /\ total_size = 0
    /\ result = NoResult
    /\ raised = NoException
    /\ answer = << >>
    /\ trace = TraceInit

\* The locals of fetch_image are gone once main has used its result; the
\* observations of the attempt are reset with them.
ForgetAttempt ==
    /\ url' = << >>
    /\ response' = NoResponse
    /\ filename' = << >>
    /\ chunks' = << >>
    /\ total_size' = 0
    /\ result' = NoResult
    /\ trace' = [TraceInit EXCEPT !.nlines = trace.nlines]

\* An exception raised inside the try block at the given step: the matching
\* except clause returns the failure (lines 141-170).
Fail(e, step) ==
    /\ result' = HandleException(e)
    /\ trace' = [trace EXCEPT !.raisedAt = step, !.caught = e.classes]
    /\ pc' = "ask_again"

\* main, lines 181-198: one line typed at the URL prompt.
ReadUrl(line) ==
    /\ pc = "prompt_url"
    /\ trace.nlines < MaxPrompts
    /\ LET u == Strip(line)
           seen == [trace EXCEPT !.nlines = @ + 1, !.lastLine = line]
       IN  IF IsQuit(u)
           THEN /\ pc' = "exited"
                /\ trace' = seen
                /\ url' = url
           ELSE IF u = << >>
           THEN /\ pc' = "prompt_url"
                /\ trace' = seen
                /\ url' = url
           ELSE IF ~HasHttpScheme(u)
           THEN /\ pc' = "prompt_url"
                /\ trace' = seen
                /\ url' = url
           ELSE /\ pc' = "fetch_mkdir"
                /\ url' = u
                /\ trace' = [seen EXCEPT !.filesBefore = files]
    /\ UNCHANGED << now, cwdWritable, dir, files, response, filename, chunks,
                    total_size, result, raised, answer >>

\* main, lines 201-208: the answer to the follow-up prompt.
AskAgain(ans) ==
    /\ pc = "ask_again"
    /\ answer' = ans
    /\ pc' = IF SaysYes(ans) THEN "prompt_url" ELSE "exited"
    /\ ForgetAttempt
    /\ UNCHANGED << now, cwdWritable, dir, files, raised >>

\* main, lines 210-216: EOFError or KeyboardInterrupt at a prompt ends the
\* loop.
InputEnds ==
    /\ pc \in {"prompt_url", "ask_again"}
    /\ pc' = "exited"
    /\ ForgetAttempt
    /\ UNCHANGED << now, cwdWritable, dir, files, raised, answer >>

\* Time passes while the program waits for the user.
Tick ==
    /\ pc = "prompt_url"
    /\ now < MaxClock
    /\ now' = now + 1
    /\ UNCHANGED << pc, url, cwdWritable, dir, files, response, filename, chunks,
                    total_size, result, raised, answer, trace >>

kErrno13 ==
    Str(<< "[", "E", "r", "r", "n", "o", " ", "1", "3", "]", " ", "P", "e", "r",
          "m", "i", "s", "s", "i", "o", "n", " ", "d", "e", "n", "i", "e", "d",
          ":", " " >>)

\* fetch_image, line 95: Path(directory).mkdir(exist_ok=True), before the
\* try block.  A PermissionError raised here is caught by no clause of
\* fetch_image, and by none of main (lines 210-216).
FetchMkdir ==
    /\ pc = "fetch_mkdir"
    /\ IF dir # "absent"
       THEN pc' = "fetch_request" /\ UNCHANGED << dir, raised >>
       ELSE IF cwdWritable
       THEN pc' = "fetch_request" /\ dir' = "writable" /\ UNCHANGED raised
       ELSE /\ pc' = "crashed"
            /\ raised' = Exc({"PermissionError", "OSError", "Exception"},
                             kErrno13 \o kApostrophe \o kDirectory \o kApostrophe,
                             NoResponse)
            /\ UNCHANGED dir
    /\ UNCHANGED << url, now, cwdWritable, files, response, filename, chunks,
                    total_size, result, answer, trace >>

\* fetch_image, line 107: requests.get returns a response, or raises.
FetchRequest ==
    /\ pc = "fetch_request"
    /\ IF NetLoc(url) = << >>
       THEN /\ Fail(Exc({"InvalidURL", "RequestException", "ValueError", "Exception"},
                        kInvalidUrl \o kApostrophe \o url \o kApostrophe \o kNoHost,
                        NoResponse), "request")
            /\ UNCHANGED response
       ELSE \/ \E e \in RequestFailures :
                   Fail(e, "request") /\ UNCHANGED response
            \/ \E r \in SpecResponses :
                   /\ response' = r
                   /\ pc' = "fetch_status"
                   /\ UNCHANGED << result, trace >>
    /\ UNCHANGED << url, now, cwdWritable, dir, files, filename, chunks,
                    total_size, raised, answer >>

\* fetch_image, line 108: response.raise_for_status().
FetchRaiseForStatus ==
    /\ pc = "fetch_status"
    /\ IF RaisesForStatus(response.status)
       THEN Fail(Exc({"HTTPError", "RequestException", "Exception"},
                     << >>, response), "status")
       ELSE /\ pc' = "fetch_validate"
            /\ trace' = [trace EXCEPT !.statusPassed = TRUE]
            /\ UNCHANGED result
    /\ UNCHANGED << url, now, cwdWritable, dir, files, response, filename, chunks,
                    total_size, raised, answer >>

\* fetch_image, line 111: validate_image_response(response).  When the
\* content type is not an image type the validator reads response.content,
\* which downloads the body and can fail; iter_content then yields slices
\* of the body read.
FetchValidate ==
    /\ pc = "fetch_validate"
    /\ \/ /\ ~ContentTypeIsImage(response)
          /\ \E e \in StreamFailures : Fail(e, "validate")
          /\ UNCHANGED chunks
       \/ LET v == validate_image_response(response)
          IN  IF v.ok
              THEN /\ pc' = "fetch_filename"
                   /\ trace' = [trace EXCEPT !.validated = TRUE]
                   /\ chunks' = IF ContentTypeIsImage(response)
                                THEN response.body
                                ELSE IterSlices(Concat(response.body), ChunkSize)
                   /\ UNCHANGED result
              ELSE /\ Fail(Exc({"ValueError", "Exception"}, v.error, NoResponse),
                           "validate")
                   /\ UNCHANGED chunks
    /\ UNCHANGED << url, now, cwdWritable, dir, files, response, filename,
                    total_size, raised, answer >>

\* fetch_image, lines 114-115: filename = generate_filename(url, response).
FetchFilename ==
    /\ pc = "fetch_filename"
    /\ filename' = generate_filename(url, response, now)
    /\ trace' = [trace EXCEPT !.chosen = ChosenName(url, response, now)]
    /\ pc' = "fetch_length"
    /\ UNCHANGED << url, now, cwdWritable, dir, files, response, chunks,
                    total_size, result, raised, answer >>

\* fetch_image, lines 118-120: the content-length advisory.  int() raises
\* ValueError for a value that is no integer literal.
FetchLength ==
    /\ pc = "fetch_length"
    /\ LET content_length == response.headers.content_length
           truthy == content_length.present /\ content_length.value # << >>
           n == ParseInt(content_length.value)
       IN  IF truthy /\ ~n.ok
           THEN Fail(Exc({"ValueError", "Exception"},
                         kInvalidLiteral \o kApostrophe \o content_length.value
                             \o kApostrophe,
                         NoResponse), "content_length")
           ELSE /\ pc' = "fetch_open"
                /\ trace' = [trace EXCEPT
                                !.advised = truthy /\ n.value > LargeFileLimit]
                /\ UNCHANGED result
    /\ UNCHANGED << url, now, cwdWritable, dir, files, response, filename, chunks,
                    total_size, raised, answer >>

\* fetch_image, lines 125-126: total_size = 0; open(filepath, 'wb').  The
\* path of an empty name, of "." and of ".." is a directory; a new file
\* needs a writable directory.
FetchOpen ==
    /\ pc = "fetch_open"
    /\ total_size' = 0
    /\ IF filename \in { << >>, kDot, kDotDot }
       THEN /\ Fail(Exc({"IsADirectoryError", "OSError", "Exception"},
                        kIsADirectory \o kApostrophe \o FilePath(filename)
                            \o kApostrophe,
                        NoResponse), "open")
            /\ UNCHANGED files
       ELSE IF filename \notin DOMAIN files /\ dir # "writable"
       THEN /\ Fail(Exc({"PermissionError", "OSError", "Exception"},
                        kErrno13 \o kApostrophe \o FilePath(filename)
                            \o kApostrophe,
                        NoResponse), "open")
            /\ UNCHANGED files
       ELSE /\ files' = OpenWb(files, filename)
            /\ trace' = [trace EXCEPT !.opened = TRUE]
            /\ pc' = "fetch_stream"
            /\ UNCHANGED result
    /\ UNCHANGED << url, now, cwdWritable, dir, response, filename, chunks,
                    raised, answer >>

\* fetch_image, lines 127-130: one turn of the loop over iter_content.
FetchWriteChunk ==
    /\ pc = "fetch_stream"
    /\ chunks # << >>
    /\ LET chunk == Head(chunks)
       IN  IF chunk # << >>
           THEN /\ files' = WriteBytes(files, filename, chunk)
                /\ total_size' = AddSize(total_size, chunk)
                /\ trace' = [trace EXCEPT !.written = Append(@, chunk)]
           ELSE UNCHANGED << files, total_size, trace >>
    /\ chunks' = Tail(chunks)
    /\ UNCHANGED << pc, url, now, cwdWritable, dir, response, filename, result,
                    raised, answer >>

\* fetch_image, line 127: iter_content raises while the body is still read
\* from the network (it was not read by the validator).
FetchStreamFails ==
    /\ pc = "fetch_stream"
    /\ chunks # << >>
    /\ ContentTypeIsImage(response)
    /\ \E e \in StreamFailures : Fail(e, "stream")
    /\ UNCHANGED << url, now, cwdWritable, dir, files, response, filename, chunks,
                    total_size, raised, answer >>

\* fetch_image, lines 132-139: the loop is over, the file is closed and
\* (True, str(filepath)) is returned.
FetchReturn ==
    /\ pc = "fetch_stream"
    /\ chunks = << >>
    /\ result' = [success |-> TRUE, message |-> FilePath(filename)]
    /\ pc' = "ask_again"
    /\ UNCHANGED << url, now, cwdWritable, dir, files, response, filename, chunks,
                    total_size, raised, answer, trace >>

Next ==
    \/ \E line \in SpecLines : ReadUrl(line)
    \/ \E ans \in SpecAnswers : AskAgain(ans)
    \/ InputEnds
    \/ Tick
    \/ FetchMkdir
    \/ FetchRequest
    \/ FetchRaiseForStatus
    \/ FetchValidate
    \/ FetchFilename
    \/ FetchLength
    \/ FetchOpen
    \/ FetchWriteChunk
    \/ FetchStreamFails
    \/ FetchReturn

Spec == Init /\ [][Next]_vars

-----------------------------------------------------------------------------
(* validate_image_response on its own: the attempt stands at line 111 with *)
(* any of the responses below.                                             *)

\* The longest body prefix tried.
MaxContentLen == 11

\* Signatures, signatures behind a stray byte, and signatures with the last
\* byte off by one.
ValidateCandidates ==
    image_signatures
        \cup { << 0 >> \o sig : sig \in image_signatures }
        \cup { [sig EXCEPT ![Len(sig)] = @ + 1] : sig \in image_signatures }

ValidateContents ==
    { Take(c \o << 0, 1, 2, 3 >>, n) : c \in ValidateCandidates, n \in 0..MaxContentLen }

\* Each content as one chunk, and cut into two chunks at every place.
ValidateBodies ==
    { << c >> : c \in ValidateContents }
        \cup { << Take(c, k), Drop(c, k) >> : c \in ValidateContents, k \in 0..2 }

ValidateContentTypes ==
    { NoHeader,
      Header(<< >>),
      Header(kImagePng),
      Header(Str(<< "I", "M", "A", "G", "E", "/", "P", "N", "G" >>)),
      Header(Str(<< "I", "m", "a", "g", "e", "/", "J", "p", "e", "g", ";", " ", "q", "=",
            "1" >>)),
      Header(kImageSlash),
      Header(Str(<< "i", "m", "a", "g", "e" >>)),
      Header(Str(<< " ", "i", "m", "a", "g", "e", "/", "p", "n", "g" >>)),
      Header(Str(<< "x", "-", "i", "m", "a", "g", "e", "/", "p", "n", "g" >>)),
      Header(kTextHtml) }

ValidateResponses ==
    { [status |-> 200,
       headers |-> [NoHeaders EXCEPT !.content_type = ct],
       body |-> b] : ct \in ValidateContentTypes, b \in ValidateBodies }

\* The state of an attempt for url u, entered from the first line typed,
\* that has received response r and stands at step at.
AttemptAt(at, u, r) ==
    /\ pc = at
    /\ url = u
    /\ cwdWritable = TRUE
    /\ dir = "writable"
    /\ files = EmptyDir
    /\ response = r
    /\ filename = << >>
    /\ total_size = 0
    /\ result = NoResult
    /\ raised = NoException
    /\ answer = << >>

InitValidate ==
    /\ now = 0
    /\ chunks = << >>
    /\ trace = [TraceInit EXCEPT !.nlines = 1, !.lastLine = kUrlImg,
                                 !.statusPassed = TRUE]
    /\ \E r \in ValidateResponses : AttemptAt("fetch_validate", kUrlImg, r)

NextValidate == FetchValidate

SpecValidate == InitValidate /\ [][NextValidate]_vars

-----------------------------------------------------------------------------
(* generate_filename on its own: the attempt stands at line 114 with any   *)
(* of the URLs and headers below.                                          *)

\* The longest URL path tried, in tokens.
MaxTokens == 3

PathTokens ==
    { Str(<< "/" >>), Str(<< "a" >>), Str(<< "." >>),
      Str(<< "%", "2", "F" >>), Str(<< "%", "2", "0" >>),
      Str(<< "%", "C", "3" >>), Str(<< "%", "A", "9" >>),
      Str(<< ";" >>), Str(<< "?" >>) }

RECURSIVE PathsOf(_)
\* The paths of exactly n tokens.
PathsOf(n) ==
    IF n = 0 THEN { << >> }
    ELSE { p \o t : p \in PathsOf(n - 1), t \in PathTokens }

kHost == Str(<< "h", "t", "t", "p", "s", ":", "/", "/", "x" >>)

NameUrls ==
    { kHost \o Str(<< "/" >>) \o p : p \in UNION { PathsOf(n) : n \in 0..MaxTokens } }
        \cup { kHost }

kAttachmentTraversal ==
    Str(<< "a", "t", "t", "a", "c", "h", "m", "e", "n", "t", ";", " ", "f", "i",
          "l", "e", "n", "a", "m", "e", "=", "\"", ".", ".", "/" >>) \o EAcute
        \o Str(<< " ", "b", "\\", "c", ".", "p", "n", "g", "\"" >>)
kAttachmentUnsafe ==
    Str(<< "i", "n", "l", "i", "n", "e", ";", " ", "f", "i", "l", "e", "n", "a",
          "m", "e", "=", "'", "?", "?", " ", "/", "'" >>)
kPngWithCharset ==
    Str(<< "i", "m", "a", "g", "e", "/", "p", "n", "g", ";", " ", "c", "h", "a",
          "r", "s", "e", "t", "=", "b", "i", "n", "a", "r", "y" >>)
kUpperGif == Str(<< "I", "M", "A", "G", "E", "/", "G", "I", "F" >>)

NameDispositions ==
    { NoHeader, Header(kAttachmentPng), Header(kAttachmentEmpty),
      Header(kAttachmentTraversal), Header(kAttachmentUnsafe) }

NameContentTypes ==
    { NoHeader, Header(kImagePng), Header(kPngWithCharset), Header(kUpperGif) }

NameResponses ==
    { [status |-> 200,
       headers |-> [content_type |-> ct, content_length |-> NoHeader,
                    content_disposition |-> cd],
       body |-> << << 66, 77 >> >>] :
        ct \in NameContentTypes, cd \in NameDispositions }

InitFilename ==
    /\ now = MaxClock
    /\ chunks = << << 66, 77 >> >>
    /\ \E u \in NameUrls :
           /\ trace = [TraceInit EXCEPT !.nlines = 1, !.lastLine = u,
                                        !.statusPassed = TRUE, !.validated = TRUE]
           /\ \E r \in NameResponses : AttemptAt("fetch_filename", u, r)

NextFilename == FetchFilename

SpecFilename == InitFilename /\ [][NextFilename]_vars

-----------------------------------------------------------------------------
(* Properties                                                              *)

\* The statuses 2xx.
IsSuccessStatus(status) == status >= 200 /\ status <= 299

\* C1: the output file is opened only after the status check has passed
\* with a 2xx status and the validator has accepted the response; an attempt
\* whose response has a non-2xx status, or which the validator did not
\* accept, ends in a failure and leaves the directory's files as they were.
C1_WriteOnlyAfterChecks ==
    /\ trace.opened => (IsSuccessStatus(response.status) /\ trace.validated)
    /\ (pc = "ask_again" /\ (~IsSuccessStatus(response.status) \/ ~trace.validated))
           => (~result.success /\ files = trace.filesBefore)

\* C2: no exception leaves fetch_image: every failure of a step, directory
\* creation included, is returned as a failure result.
C2_NothingPropagates == raised = NoException /\ pc # "crashed"

\* C3: for a response with a non-2xx status the attempt returns the failure
\* "HTTP <code> error" with <code> the status of the response.
C3_FailureCarriesStatus ==
    (pc = "ask_again" /\ response # NoResponse /\ ~IsSuccessStatus(response.status))
        => result = [success |-> FALSE,
                     message |-> Str(<< "H", "T", "T", "P", " " >>) \o IntToStr(response.status)
                                     \o Str(<< " ", "e", "r", "r", "o", "r" >>)]

\* The byte written as two hexadecimal digits.
HexByte(hi, lo) == 16 * HexVal(Ord(hi)) + HexVal(Ord(lo))

\* The five signatures as the claim writes them.
ClaimSignatures ==
    { << HexByte("F", "F"), HexByte("D", "8"), HexByte("F", "F") >>,
      << HexByte("8", "9"), HexByte("5", "0"), HexByte("4", "E"), HexByte("4", "7"),
         HexByte("0", "D"), HexByte("0", "A"), HexByte("1", "A"), HexByte("0", "A") >>,
      Str(<< "G", "I", "F", "8", "7", "a" >>),
      Str(<< "G", "I", "F", "8", "9", "a" >>),
      << HexByte("4", "2"), HexByte("4", "D") >> }

kImageSlashUpper == Str(<< "I", "M", "A", "G", "E", "/" >>)

\* The content-type header starts with "image/" in any mix of cases, or a
\* signature is a prefix of the first 10 bytes of the body.
ClaimAccepts(resp) ==
    LET ct == IF resp.headers.content_type.present
              THEN resp.headers.content_type.value ELSE << >>
        content == Concat(resp.body)
    IN  \/ /\ Len(ct) >= 6
           /\ \A i \in 1..6 : ct[i] \in { kImageSlash[i], kImageSlashUpper[i] }
        \/ \E sig \in ClaimSignatures :
               /\ Len(sig) <= 10
               /\ Len(sig) <= Len(content)
               /\ \A i \in 1..Len(sig) : content[i] = sig[i]

ClaimRejection ==
    Str(<< "U", "R", "L", " ", "d", "o", "e", "s", " ", "n", "o", "t", " ", "p",
          "o", "i", "n", "t", " ", "t", "o", " ", "a", " ", "v", "a", "l", "i",
          "d", " ", "i", "m", "a", "g", "e", " ", "f", "i", "l", "e" >>)

\* C4: the validator accepts a response if and only if its content type
\* starts with "image/" (case-insensitively) or one of the five signatures
\* is a prefix of the first 10 bytes of its body; every other response it
\* rejects with "URL does not point to a valid image file", which the
\* attempt returns as its failure message.
C4_ValidatorAcceptsExactlyImages ==
    /\ trace.validated => ClaimAccepts(response)
    /\ (pc = "ask_again" /\ trace.raisedAt = "validate" /\ "ValueError" \in trace.caught)
           => (/\ ~ClaimAccepts(response)
               /\ result = [success |-> FALSE, message |-> ClaimRejection])
    /\ (pc = "ask_again" /\ trace.raisedAt = "validate" /\ "ValueError" \notin trace.caught)
           => ~ContentTypeIsImage(response)

\* C4's case: a response with a content type and a body rejected.
C4_Witness ==
    /\ pc = "ask_again"
    /\ result.message = ClaimRejection
    /\ response.headers.content_type.present
    /\ Len(Concat(response.body)) >= 7

\* C5: the filename generate_filename returns is never empty.
C5_FilenameNonEmpty == pc = "fetch_length" => filename # << >>

\* The characters [A-Za-z0-9.-_].
ClaimSafeAscii ==
    (48..57) \cup (65..90) \cup (97..122) \cup { Ord("."), Ord("-"), Ord("_") }

NonAsciiAlnum ==
    { 170, 178, 179, 181, 185, 186, 188, 189, 190 }
        \cup (192..214) \cup (216..246) \cup (248..255)

KeptByClaim(c) == c \in ClaimSafeAscii \cup NonAsciiAlnum

C7_ContentLengthNeverFails == trace.raisedAt # "content_length"

RECURSIVE SumLen(_)
\* The sum of the lengths of the chunks.
SumLen(cs) == IF cs = << >> THEN 0 ELSE Len(Head(cs)) + SumLen(Tail(cs))

C9_NeverOverwrites ==
    \A n \in DOMAIN trace.filesBefore :
        n \in DOMAIN files /\ files[n] = trace.filesBefore[n]

\* C9, amended: an attempt deletes no file and changes no file but the one
\* its resolved filename names, and creates no other.
C9_OnlyResolvedNameChanges ==
    /\ \A n \in DOMAIN trace.filesBefore :
           /\ n \in DOMAIN files
           /\ n # filename => files[n] = trace.filesBefore[n]
    /\ pc \notin {"prompt_url", "exited"} =>
           DOMAIN files \subseteq DOMAIN trace.filesBefore \cup { filename }

\* C9's case: a file written beside one that was there before.
C9_Witness ==
    /\ pc = "ask_again"
    /\ result.success
    /\ DOMAIN trace.filesBefore # {}
    /\ filename \notin DOMAIN trace.filesBefore
    /\ files[filename] # << >>

\* A line that asks for a fetch: not empty once trimmed, not quit, exit or
\* q in any case, and starting with http:// or https://.
ClaimValidLine(line) ==
    LET t == Strip(line)
    IN  /\ t # << >>
        /\ Lower(t) \notin { Str(<< "q", "u", "i", "t" >>), Str(<< "e", "x", "i", "t" >>),
                             Str(<< "q" >>) }
        /\ \/ StartsWith(t, Str(<< "h", "t", "t", "p", ":", "/", "/" >>))
           \/ StartsWith(t, Str(<< "h", "t", "t", "p", "s", ":", "/", "/" >>))

ClaimYes(ans) ==
    Lower(Strip(ans)) \in { Str(<< "y" >>), Str(<< "y", "e", "s" >>) }

\* C10: fetch_image is entered once for each line typed at the URL prompt
\* that asks for a fetch, with that line trimmed, and for no other line; it
\* is entered at no other time (no attempt is retried); and after an
\* attempt the loop goes on only if the user answers y or yes.
C10_OneAttemptPerValidLine ==
    [][ /\ (trace'.nlines # trace.nlines) =>
               /\ trace'.nlines = trace.nlines + 1
               /\ (pc' = "fetch_mkdir") <=> ClaimValidLine(trace'.lastLine)
               /\ (pc' = "fetch_mkdir") => url' = Strip(trace'.lastLine)
        /\ (pc' = "fetch_mkdir" /\ pc # "fetch_mkdir") =>
               (pc = "prompt_url" /\ trace'.nlines = trace.nlines + 1)
        /\ (pc = "ask_again" /\ pc' # "ask_again") =>
               (pc' = "exited" \/ (pc' = "prompt_url" /\ ClaimYes(answer')))
        /\ (pc = "crashed" \/ pc = "exited") => pc' = pc
      ]_vars

\* C10's case: a second attempt, begun after the user answered yes.
C10_Witness ==
    /\ pc = "fetch_mkdir"
    /\ trace.nlines = 2
    /\ answer # << >>
    /\ trace.lastLine # url

====
